---- MODULE Spec2Model ----
(***************************************************************************)
(* Workflow Satisfiability Problem solvers: solver_combinatorial,          *)
(* solver_symmetry and solver_doreen.  Each Solver(filename) parses an     *)
(* instance file, compiles its constraint lines into a CP-SAT model,       *)
(* solves it and formats the result dictionary d.                          *)
(*                                                                         *)
(* An instance file is modelled by its header counts and its constraint    *)
(* lines; a line is a record tagged by its keyword (kw), carrying the      *)
(* tokens the solvers read from it.  Step and user tokens "s<i>", "u<j>"   *)
(* are the numbers i, j, and a solution line "s<i>: u<j>" is <<i, j>>.     *)
(***************************************************************************)
EXTENDS Integers, Sequences, FiniteSets, TLC

VARIABLES instance, max_solutions, solver, pc, cp, enumerated, found, count, status, d,
          caller, report,
          thread, result, exception, joined, returned,
          solution_file, validation,
          app, files, attempts

\* The state of a call of Solver and of what run_solver.py or the benchmark reports.
solverVars == <<instance, max_solutions, solver, pc, cp, enumerated, found, count, status, d,
                caller, report>>

\* The state of a call of solver_with_timeout.
timeoutVars == <<thread, result, exception, joined, returned>>

\* The solution file handed to the validators, and what each validator reported.
validatorVars == <<solution_file, validation>>

\* The WorkflowSolverApp object, the files it writes, and its solve attempts.
guiVars == <<app, files, attempts>>

\* The state of the callers that run beside a call of Solver.
callerVars == <<timeoutVars, validatorVars, guiVars>>

vars == <<solverVars, callerVars>>

(***************************************************************************)
(* Bounds of the instances explored.                                       *)
(***************************************************************************)
MaxSteps == 2
MaxUsers == 2
MaxLines == 2
MaxAttempts == 2
MaxTeams == 2
MaxSolutions == 2
MaxStepsWide == 3
MaxUsersWide == 3

Max(a, b) == IF a >= b THEN a ELSE b

Range(f) == {f[i] : i \in DOMAIN f}

SubsetsOfSize(S, n) == {T \in SUBSET S : Cardinality(T) = n}

SeqsUpTo(S, n) == UNION {[1..m -> S] : m \in 0..n}

(***************************************************************************)
(* The six kinds of constraint line of the instance text format.           *)
(***************************************************************************)
Authorisations(u, A) == [kw |-> "Authorisations", user |-> u, steps |-> A]
SeparationOfDuty(a, b) == [kw |-> "Separation-of-duty", s1 |-> a, s2 |-> b]
BindingOfDuty(a, b) == [kw |-> "Binding-of-duty", s1 |-> a, s2 |-> b]
AtMostK(k, S) == [kw |-> "At-most-k", k |-> k, steps |-> S]
OneTeam(S, T) == [kw |-> "One-team", steps |-> S, teams |-> T]
UserCapacity(u, c) == [kw |-> "User-capacity", user |-> u, cap |-> c]

\* A line of a keyword that is none of the six constraint kinds.
Precedence(a, b) == [kw |-> "Precedence", s1 |-> a, s2 |-> b]
\* A Separation-of-duty or Binding-of-duty line that names one step only.
OneStepOnly(kw, a) == [kw |-> kw, s1 |-> a]

NonEmpty(S) == (SUBSET S) \ {{}}

\* Team lists of a One-team line: one to MaxTeams different teams, in any order.
TeamLists(M) ==
    {T \in SeqsUpTo(NonEmpty(1..M), MaxTeams) :
        /\ Len(T) >= 1
        /\ \A i \in 1..Len(T) : \A j \in 1..Len(T) : i # j => T[i] # T[j]}

StepPairs(N) == {p \in (1..N) \X (1..N) : p[1] # p[2]}

\* The constraint lines a well-formed instance of N steps and M users can hold.
Lines(N, M) ==
    {Authorisations(u, A) : u \in 1..M, A \in SUBSET (1..N)}
        \cup {SeparationOfDuty(p[1], p[2]) : p \in StepPairs(N)}
        \cup {BindingOfDuty(p[1], p[2]) : p \in StepPairs(N)}
        \cup {AtMostK(k, S) : k \in 0..(Max(N, M) + 1), S \in NonEmpty(1..N)}
        \cup {OneTeam(S, T) : S \in NonEmpty(1..N), T \in TeamLists(M)}
        \cup {UserCapacity(u, c) : u \in 1..M, c \in 0..N}

\* The lines of the kinds whose encoding grows with the number of steps and users.
CountingLines(N, M) == {l \in Lines(N, M) : l.kw # "One-team"}

WideInstances ==
    UNION {UNION {{[steps |-> N, users |-> M, lines |-> <<l>>] : l \in CountingLines(N, M)} :
                  M \in 1..MaxUsersWide} : N \in 1..MaxStepsWide}

\* Lines that are not well formed: an unknown keyword, a missing token.
MalformedLines(N) ==
    {Precedence(a, b) : a \in 1..N, b \in 1..N}
        \cup {OneStepOnly(kw, a) : kw \in {"Separation-of-duty", "Binding-of-duty"}, a \in 1..N}

\* The instance files of one line, well formed or not.
FileInstances ==
    UNION {UNION {{[steps |-> N, users |-> M, lines |-> <<l>>] :
                     l \in CountingLines(N, M) \cup MalformedLines(N)} :
                  M \in 1..MaxUsers} : N \in 1..MaxSteps}

\* The instances of one One-team line.
TeamInstances ==
    UNION {UNION {{[steps |-> N, users |-> M, lines |-> <<l>>] :
                     l \in {x \in Lines(N, M) : x.kw = "One-team"}} :
                  M \in 1..MaxUsers} : N \in 1..MaxSteps}

\* The instances of at most one constraint line.
EnumInstances ==
    UNION {UNION {{[steps |-> N, users |-> M, lines |-> ls] :
                     ls \in SeqsUpTo(Lines(N, M), 1)} :
                  M \in 1..MaxUsers} : N \in 1..MaxSteps}

Instances ==
    UNION {UNION {{[steps |-> N, users |-> M, lines |-> ls] :
                     ls \in SeqsUpTo(Lines(N, M), MaxLines)} :
                  M \in 1..MaxUsers} : N \in 1..MaxSteps}

(***************************************************************************)
(* The CP-SAT backend.  A model is its decision variables (one integer     *)
(* variable per step over 1..users_count in solver_combinatorial and       *)
(* solver_symmetry) and the set of constraints posted on them.  Auxiliary  *)
(* variables created together with a constraint are local to it, so a      *)
(* posted constraint holds of an assignment of the decision variables when *)
(* some value of its auxiliary variables satisfies it.                     *)
(***************************************************************************)
\* model.Add(assignments[step] != user)
NotUser(s, u) == [op |-> "NotUser", step |-> s, user |-> u]
\* model.Add(assignments[s1] != assignments[s2])
Differ(a, b) == [op |-> "Differ", s1 |-> a, s2 |-> b]
\* model.Add(assignments[s1] == assignments[s2])
Same(a, b) == [op |-> "Same", s1 |-> a, s2 |-> b]
\* model.AddBoolOr(same_user_pairs), one reified same_user boolean per pair
BoolOrSame(P) == [op |-> "BoolOrSame", pairs |-> P]
\* model.AddAllowedAssignments(step_vars, allowed_combinations)
AllowedAssignments(S, tuples) == [op |-> "AllowedAssignments", steps |-> S, tuples |-> tuples]
\* model.Add(sum(assigned_steps) <= capacity), one reified is_assigned boolean per step
SumAtMost(u, c) == [op |-> "SumAtMost", user |-> u, cap |-> c]

\* solver_symmetry, At-most-k: k user_vars over 1..users_count, strictly increasing, and
\* for every step one is_assigned boolean per user_var, exactly one of them true
Slots(k, S) == [op |-> "Slots", k |-> k, steps |-> S]
\* solver_symmetry, One-team: one pass over one_team_constraints, creating a team_var per
\* team (exactly one true per constraint), the conditional membership constraints and the
\* exclusion of disjoint teams of two constraints that share a step
TeamSelect(otcs) == [op |-> "TeamSelect", otcs |-> otcs]

\* The values of k strictly increasing user_vars over 1..M are the k-element subsets of
\* 1..M, each listed in increasing order; a step's one true is_assigned boolean names
\* the user_var its user equals.
HoldsSlots(c, a, M) ==
    \E user_vars \in SubsetsOfSize(1..M, c.k) : \A s \in c.steps : a[s] \in user_vars

\* The selections left, were the exclusion posted for every two different teams.
TeamSelectionsSameTeam(otcs) ==
    {sel \in [DOMAIN otcs -> 1..MaxTeams] :
        /\ \A i \in DOMAIN otcs : sel[i] \in DOMAIN otcs[i].teams
        /\ \A i \in DOMAIN otcs : \A j \in DOMAIN otcs :
              (i < j /\ otcs[i].steps \cap otcs[j].steps # {})
                  => otcs[i].teams[sel[i]] = otcs[j].teams[sel[j]]}

\* The team selections (one selected team per constraint) the exclusions leave.
TeamSelections(otcs) ==
    {sel \in [DOMAIN otcs -> 1..MaxTeams] :
        /\ \A i \in DOMAIN otcs : sel[i] \in DOMAIN otcs[i].teams
        /\ \A i \in DOMAIN otcs : \A j \in DOMAIN otcs :
              (i < j /\ otcs[i].steps \cap otcs[j].steps # {})
                  => otcs[i].teams[sel[i]] \cap otcs[j].teams[sel[j]] # {}}

HoldsTeamSelect(c, a) ==
    \E sel \in TeamSelections(c.otcs) :
        \A i \in DOMAIN c.otcs : \A s \in c.otcs[i].steps : a[s] \in c.otcs[i].teams[sel[i]]

HoldsInt(c, a, N, M) ==
    CASE c.op = "NotUser" -> a[c.step] # c.user
      [] c.op = "Differ" -> a[c.s1] # a[c.s2]
      [] c.op = "Same" -> a[c.s1] = a[c.s2]
      [] c.op = "BoolOrSame" -> \E p \in c.pairs : \A i \in p : \A j \in p : a[i] = a[j]
      [] c.op = "AllowedAssignments" -> [s \in c.steps |-> a[s]] \in c.tuples
      [] c.op = "SumAtMost" -> Cardinality({s \in 1..N : a[s] = c.user}) <= c.cap
      [] c.op = "Slots" -> HoldsSlots(c, a, M)
      [] c.op = "TeamSelect" -> HoldsTeamSelect(c, a)

\* The assignments of the step variables the backend can return for a model.
IntSolutions(m) ==
    {a \in [1..m.steps_count -> 1..m.users_count] :
        \A c \in m.cons : HoldsInt(c, a, m.steps_count, m.users_count)}

(***************************************************************************)
(* solver_combinatorial                                                    *)
(***************************************************************************)
parse_file_combinatorial(inst) ==
    [steps_count |-> inst.steps,
     users_count |-> inst.users,
     constraints |-> SelectSeq(inst.lines, LAMBDA l : l.kw # "User-capacity"),
     user_capacity_constraints |-> SelectSeq(inst.lines, LAMBDA l : l.kw = "User-capacity")]

\* step1, step2 = int(parts[1][1:]), int(parts[2][1:]) raises IndexError on a line
\* with one step; the loops of solver_combinatorial and solver_symmetry share the branch.
RaisesInLoop(constraints) ==
    \E i \in DOMAIN constraints :
        /\ constraints[i].kw \in {"Separation-of-duty", "Binding-of-duty"}
        /\ "s2" \notin DOMAIN constraints[i]

\* The state of the loop over the constraint lines.
LoopStart == [cons |-> {}, user_authorisations |-> {}, one_team_constraints |-> <<>>]

\* The Authorisations branch: the first entry of a user is applied, later ones skipped.
ApplyAuthorisations(st, l, N) ==
    IF l.user \in st.user_authorisations
    THEN st
    ELSE [st EXCEPT !.user_authorisations = @ \cup {l.user},
                    !.cons = @ \cup {NotUser(s, l.user) : s \in (1..N) \ l.steps}]

\* The Separation-of-duty branch, were it to post the equality of the Binding-of-duty branch.
ApplySeparationOfDutyAsBinding(st, l) == [st EXCEPT !.cons = @ \cup {Same(l.s1, l.s2)}]

ApplySeparationOfDuty(st, l) == [st EXCEPT !.cons = @ \cup {Differ(l.s1, l.s2)}]

ApplyBindingOfDuty(st, l) == [st EXCEPT !.cons = @ \cup {Same(l.s1, l.s2)}]

\* The At-most-k branch, were it to take the subsets of k+2 steps.
ApplyAtMostKDirectOffByOne(st, l) ==
    IF l.k < Cardinality(l.steps)
    THEN [st EXCEPT !.cons = @ \cup {BoolOrSame(SubsetsOfSize(combo, 2)) :
                                        combo \in SubsetsOfSize(l.steps, l.k + 2)}]
    ELSE st

\* The At-most-k branch of solver_combinatorial: a same-user pair in every (k+1)-subset.
ApplyAtMostKDirect(st, l) ==
    IF l.k < Cardinality(l.steps)
    THEN [st EXCEPT !.cons = @ \cup {BoolOrSame(SubsetsOfSize(combo, 2)) :
                                        combo \in SubsetsOfSize(l.steps, l.k + 1)}]
    ELSE st

StoreOneTeam(st, l) ==
    [st EXCEPT !.one_team_constraints = Append(@, [steps |-> l.steps, teams |-> l.teams])]

ApplyLineCombinatorial(st, l, N) ==
    CASE l.kw = "Authorisations" -> ApplyAuthorisations(st, l, N)
      [] l.kw = "Separation-of-duty" -> ApplySeparationOfDuty(st, l)
      [] l.kw = "Binding-of-duty" -> ApplyBindingOfDuty(st, l)
      [] l.kw = "At-most-k" -> ApplyAtMostKDirect(st, l)
      [] l.kw = "One-team" -> StoreOneTeam(st, l)
      [] OTHER -> st

RECURSIVE LoopCombinatorial(_, _, _, _)
LoopCombinatorial(constraints, i, st, N) ==
    IF i > Len(constraints)
    THEN st
    ELSE LoopCombinatorial(constraints, i + 1, ApplyLineCombinatorial(st, constraints[i], N), N)

\* The table, were it the product of the union of the teams.
AllowedCombinationsAnyTeam(otc) ==
    [otc.steps -> UNION {otc.teams[t] : t \in DOMAIN otc.teams}]

\* itertools.product(team, repeat=len(steps)) for every team of the constraint
AllowedCombinations(otc) == UNION {[otc.steps -> otc.teams[t]] : t \in DOMAIN otc.teams}

OneTeamDirect(otcs) ==
    {AllowedAssignments(otcs[i].steps, AllowedCombinations(otcs[i])) : i \in DOMAIN otcs}

UserCapacityDirect(ucs) == {SumAtMost(ucs[i].user, ucs[i].cap) : i \in DOMAIN ucs}

\* The model Solver builds in solver_combinatorial.
ModelCombinatorial(inst) ==
    LET f == parse_file_combinatorial(inst)
        st == LoopCombinatorial(f.constraints, 1, LoopStart, f.steps_count)
    IN [kind |-> "int",
        steps_count |-> f.steps_count,
        users_count |-> f.users_count,
        cons |-> st.cons \cup OneTeamDirect(st.one_team_constraints)
                    \cup UserCapacityDirect(f.user_capacity_constraints)]

(***************************************************************************)
(* solver_symmetry                                                         *)
(***************************************************************************)
parse_file_symmetry(inst) ==
    [steps_count |-> inst.steps,
     users_count |-> inst.users,
     constraints |-> SelectSeq(inst.lines, LAMBDA l : l.kw # "Precedence"),
     precedence_constraints |-> SelectSeq(inst.lines, LAMBDA l : l.kw = "Precedence")]

\* The At-most-k branch, were it to post nothing when k is 0.
ApplyAtMostKSymmetrySkipZero(st, l) ==
    IF l.k = 0 THEN st ELSE [st EXCEPT !.cons = @ \cup {Slots(l.k, l.steps)}]

\* The At-most-k branch of solver_symmetry.
ApplyAtMostKSymmetry(st, l) == [st EXCEPT !.cons = @ \cup {Slots(l.k, l.steps)}]

\* The One-team pass that ends every iteration of the loop over the constraint lines.
OneTeamPass(st) ==
    IF st.one_team_constraints = <<>>
    THEN st
    ELSE [st EXCEPT !.cons = @ \cup {TeamSelect(st.one_team_constraints)}]

\* One iteration of the loop: the branch of the line's keyword, then the One-team pass;
\* a repeated Authorisations entry leaves the iteration by continue.
ApplyLineSymmetry(st, l, N) ==
    CASE l.kw = "Authorisations" ->
            IF l.user \in st.user_authorisations
            THEN st
            ELSE OneTeamPass(ApplyAuthorisations(st, l, N))
      [] l.kw = "Separation-of-duty" -> OneTeamPass(ApplySeparationOfDuty(st, l))
      [] l.kw = "Binding-of-duty" -> OneTeamPass(ApplyBindingOfDuty(st, l))
      [] l.kw = "At-most-k" -> OneTeamPass(ApplyAtMostKSymmetry(st, l))
      [] l.kw = "One-team" -> OneTeamPass(StoreOneTeam(st, l))
      [] OTHER -> OneTeamPass(st)

RECURSIVE LoopSymmetry(_, _, _, _)
LoopSymmetry(constraints, i, st, N) ==
    IF i > Len(constraints)
    THEN st
    ELSE LoopSymmetry(constraints, i + 1, ApplyLineSymmetry(st, constraints[i], N), N)

\* The model Solver builds in solver_symmetry.
ModelSymmetry(inst) ==
    LET f == parse_file_symmetry(inst)
        st == LoopSymmetry(f.constraints, 1, LoopStart, f.steps_count)
    IN [kind |-> "int",
        steps_count |-> f.steps_count,
        users_count |-> f.users_count,
        cons |-> st.cons]

(***************************************************************************)
(* solver_doreen.  Steps and users are numbered from 0 after parsing; the  *)
(* decision variables are the booleans user_assignment[s][u].              *)
(***************************************************************************)
RECURSIVE SeqOfSet(_)
SeqOfSet(S) ==
    IF S = {}
    THEN <<>>
    ELSE LET m == CHOOSE x \in S : \A y \in S : x <= y
         IN <<m>> \o SeqOfSet(S \ {m})

\* steps_ of one Authorisations line: [-1] when it lists no step, else the steps less one
AuthSteps(l) == IF l.steps = {} THEN <<-1>> ELSE SeqOfSet({s - 1 : s \in l.steps})

EmptyInstance(N, M) ==
    [number_of_steps |-> N,
     number_of_users |-> M,
     auth |-> [u \in 0..(M - 1) |-> <<>>],
     SOD |-> <<>>,
     BOD |-> <<>>,
     at_most_k |-> <<>>,
     one_team |-> <<>>,
     user_capacity |-> <<>>]

\* No pattern of parse_file matches the line: raise Exception("Cannot parse line").
CannotParse(l) ==
    \/ l.kw \notin {"Authorisations", "Separation-of-duty", "Binding-of-duty", "At-most-k",
                    "One-team", "User-capacity"}
    \/ l.kw \in {"Separation-of-duty", "Binding-of-duty"} /\ "s2" \notin DOMAIN l

RaisesDoreen(lines) == \E i \in DOMAIN lines : CannotParse(lines[i])

\* The branch of parse_file that matches the line.
ParseLineDoreen(ins, l) ==
    CASE l.kw = "Authorisations" ->
            [ins EXCEPT !.auth[l.user - 1] = @ \o AuthSteps(l)]
      [] l.kw = "Separation-of-duty" ->
            [ins EXCEPT !.SOD = Append(@, <<l.s1 - 1, l.s2 - 1>>)]
      [] l.kw = "Binding-of-duty" ->
            [ins EXCEPT !.BOD = Append(@, <<l.s1 - 1, l.s2 - 1>>)]
      [] l.kw = "At-most-k" ->
            [ins EXCEPT !.at_most_k = Append(@, [k |-> l.k, stp |-> {s - 1 : s \in l.steps}])]
      [] l.kw = "One-team" ->
            [ins EXCEPT !.one_team =
                Append(@, [stp |-> {s - 1 : s \in l.steps},
                           tms |-> [t \in DOMAIN l.teams |-> {u - 1 : u \in l.teams[t]}]])]
      [] l.kw = "User-capacity" ->
            [ins EXCEPT !.user_capacity = Append(@, [uid |-> l.user - 1, cap |-> l.cap])]

RECURSIVE ParseLinesDoreen(_, _, _)
ParseLinesDoreen(lines, i, ins) ==
    IF i > Len(lines)
    THEN ins
    ELSE ParseLinesDoreen(lines, i + 1, ParseLineDoreen(ins, lines[i]))

parse_file_doreen(inst) ==
    ParseLinesDoreen(inst.lines, 1, EmptyInstance(inst.steps, inst.users))

\* model.AddExactlyOne(user_assignment[s][u] for u in range(number_of_users))
ExactlyOneUser(s) == [op |-> "ExactlyOneUser", step |-> s]
\* model.Add(user_assignment[s][u] == 0)
Zero(s, u) == [op |-> "Zero", step |-> s, user |-> u]
\* model.Add(user_assignment[s2][u] == 0).OnlyEnforceIf(user_assignment[s1][u])
IfThenZero(a, b, u) == [op |-> "IfThenZero", s1 |-> a, s2 |-> b, user |-> u]
\* model.Add(user_assignment[s2][u] == 1).OnlyEnforceIf(user_assignment[s1][u])
IfThenOne(a, b, u) == [op |-> "IfThenOne", s1 |-> a, s2 |-> b, user |-> u]
\* the user_flag booleans of one At-most-k entry and model.Add(sum(user_flag) <= k)
FlagsAtMost(i, k, stp) == [op |-> "FlagsAtMost", id |-> i, k |-> k, stp |-> stp]
\* the team_flags booleans of one One-team entry, exactly one true
TeamFlags(i, stp, tms) == [op |-> "TeamFlags", id |-> i, stp |-> stp, tms |-> tms]
\* model.Add(sum(user_assignment[s][u] for s in range(number_of_steps)) <= cap)
ColumnSumAtMost(u, c) == [op |-> "ColumnSumAtMost", user |-> u, cap |-> c]

\* The Auth constraints of one user.
AuthDoreen(u, stp_list, N) ==
    IF Len(stp_list) = 1 /\ stp_list[1] = -1
    THEN {Zero(s, u) : s \in 0..(N - 1)}
    ELSE IF Len(stp_list) > 0
         THEN {Zero(s, u) : s \in (0..(N - 1)) \ Range(stp_list)}
         ELSE {}

\* The model without the AddExactlyOne rows.
ExactlyOneDoreenMissing(N) == {}

\* each step exactly 1 user
ExactlyOneDoreen(N) == {ExactlyOneUser(s) : s \in 0..(N - 1)}

SODDoreen(ins, M) ==
    {IfThenZero(ins.SOD[i][1], ins.SOD[i][2], u) : i \in DOMAIN ins.SOD, u \in 0..(M - 1)}

\* The BOD loop, were it to post the == 0 of the SOD loop.
BODDoreenAsSOD(ins, M) ==
    {IfThenZero(ins.BOD[i][1], ins.BOD[i][2], u) : i \in DOMAIN ins.BOD, u \in 0..(M - 1)}

BODDoreen(ins, M) ==
    {IfThenOne(ins.BOD[i][1], ins.BOD[i][2], u) : i \in DOMAIN ins.BOD, u \in 0..(M - 1)}

AtMostKDoreen(ins) ==
    {FlagsAtMost(i, ins.at_most_k[i].k, ins.at_most_k[i].stp) : i \in DOMAIN ins.at_most_k}

OneTeamDoreen(ins) ==
    {TeamFlags(i, ins.one_team[i].stp, ins.one_team[i].tms) : i \in DOMAIN ins.one_team}

UserCapacityDoreen(ins) ==
    {ColumnSumAtMost(ins.user_capacity[i].uid, ins.user_capacity[i].cap) :
        i \in DOMAIN ins.user_capacity}

\* The model Solver builds in solver_doreen.
ModelDoreen(inst) ==
    LET ins == parse_file_doreen(inst)
        N == ins.number_of_steps
        M == ins.number_of_users
    IN [kind |-> "bool",
        steps_count |-> N,
        users_count |-> M,
        cons |->
            ExactlyOneDoreen(N)
                \cup UNION {AuthDoreen(u, ins.auth[u], N) : u \in 0..(M - 1)}
                \cup SODDoreen(ins, M)
                \cup BODDoreen(ins, M)
                \cup AtMostKDoreen(ins)
                \cup OneTeamDoreen(ins)
                \cup UserCapacityDoreen(ins)]

\* sum(...) of booleans: the number of them that are true.
CountTrue(S, f) == Cardinality({e \in S : f[e]})

B2N(b) == IF b THEN 1 ELSE 0

\* user_flag values that satisfy one At-most-k entry under the matrix x.
UserFlags(c, x, M) ==
    {user_flag \in [0..(M - 1) -> BOOLEAN] :
        /\ \A u \in 0..(M - 1) :
              /\ \A ss \in c.stp : x[ss][u] => user_flag[u]
              /\ CountTrue(c.stp, [ss \in c.stp |-> x[ss][u]]) >= B2N(user_flag[u])
        /\ CountTrue(0..(M - 1), user_flag) <= c.k}

\* team_flags values that satisfy one One-team entry under the matrix x.
TeamFlagValues(c, x, M) ==
    {team_flags \in [DOMAIN c.tms -> BOOLEAN] :
        /\ CountTrue(DOMAIN c.tms, team_flags) = 1
        /\ \A i \in DOMAIN c.tms :
              team_flags[i] => \A s \in c.stp : \A u \in (0..(M - 1)) \ c.tms[i] : ~x[s][u]}

HoldsBool(c, x, N, M) ==
    CASE c.op = "ExactlyOneUser" -> CountTrue(0..(M - 1), x[c.step]) = 1
      [] c.op = "Zero" -> ~x[c.step][c.user]
      [] c.op = "IfThenZero" -> x[c.s1][c.user] => ~x[c.s2][c.user]
      [] c.op = "IfThenOne" -> x[c.s1][c.user] => x[c.s2][c.user]
      [] c.op = "FlagsAtMost" -> UserFlags(c, x, M) # {}
      [] c.op = "TeamFlags" -> TeamFlagValues(c, x, M) # {}
      [] c.op = "ColumnSumAtMost" ->
            CountTrue(0..(N - 1), [s \in 0..(N - 1) |-> x[s][c.user]]) <= c.cap

\* The values a row of user_assignment can take once the constraints on that row alone
\* are propagated.
RowValues(m, s) ==
    IF ExactlyOneUser(s) \in m.cons
    THEN {[u \in 0..(m.users_count - 1) |-> u = v] : v \in 0..(m.users_count - 1)}
    ELSE [0..(m.users_count - 1) -> BOOLEAN]

\* The values of user_assignment the backend can return for a model.
BoolSolutions(m) ==
    LET Rows == [s \in 0..(m.steps_count - 1) |-> RowValues(m, s)]
    IN {x \in [0..(m.steps_count - 1) -> UNION Range(Rows)] :
          /\ \A s \in 0..(m.steps_count - 1) : x[s] \in Rows[s]
          /\ \A c \in m.cons : HoldsBool(c, x, m.steps_count, m.users_count)}

\* The solutions SearchForAllSolutions enumerates: values of all the variables of the
\* model, the auxiliary user_flag and team_flags included.
FullSolutions(m) ==
    LET aux == {c \in m.cons : c.op \in {"FlagsAtMost", "TeamFlags"}}
        AuxValues(c, x) ==
            IF c.op = "FlagsAtMost"
            THEN UserFlags(c, x, m.users_count)
            ELSE TeamFlagValues(c, x, m.users_count)
    IN UNION {{[x |-> x, aux |-> v] :
                 v \in {w \in [aux -> UNION {AuxValues(c, x) : c \in aux}] :
                          \A c \in aux : w[c] \in AuxValues(c, x)}} :
              x \in BoolSolutions(m)}

(***************************************************************************)
(* Results                                                                 *)
(***************************************************************************)
\* The solution lines, were the last step left out.
FormatIntShort(a, N) == [i \in 1..(N - 1) |-> <<i, a[i]>>]

\* [f"s{i+1}: u{solver.Value(assignments[i])}" for i in range(steps_count)]
FormatInt(a, N) == [i \in 1..N |-> <<i, a[i]>>]

\* The lines appended to a solution for step s: one per user whose boolean is true.
RowLines(x, s, M) ==
    LET us == SeqOfSet({u \in 0..(M - 1) : x[s][u]})
    IN [i \in DOMAIN us |-> <<s + 1, us[i] + 1>>]

RECURSIVE FormatBoolFrom(_, _, _, _)
FormatBoolFrom(x, s, N, M) ==
    IF s >= N THEN <<>> ELSE RowLines(x, s, M) \o FormatBoolFrom(x, s + 1, N, M)

\* The solution lines, were they appended from the last step to the first.
FormatBoolDescending(x, N, M) ==
    LET f == FormatBoolFrom(x, 0, N, M)
    IN [i \in 1..Len(f) |-> f[Len(f) + 1 - i]]

\* for s in range(steps): for u in range(users): if Value(assign[s][u]): append "s: u"
FormatBool(x, N, M) == FormatBoolFrom(x, 0, N, M)

\* CP-SAT ends a solve without a time limit with INFEASIBLE when the model has no
\* solution and with OPTIMAL when it has one (the models have no objective).
SolveStatus(solutions) == IF solutions = {} THEN "INFEASIBLE" ELSE "OPTIMAL"

\* The statuses solver.Solve(model) can return: the one of a completed search, or
\* UNKNOWN when the backend stops at a limit of its parameters (the solvers set none, so
\* the defaults, such as the memory limit, apply) or on an interruption before it has
\* decided the model.
BackendStatuses(solutions) == {SolveStatus(solutions), "UNKNOWN"}

NoMulSol == [text |-> "", blocks |-> <<>>]

Unsat == [sat |-> "unsat", sol |-> <<>>, mul_sol |-> NoMulSol]

\* The result dictionary of solver_doreen's single-solution mode when a solution is found.
SatDoreen(x, m, text) ==
    [sat |-> "sat",
     sol |-> FormatBool(x, m.steps_count, m.users_count),
     mul_sol |-> [text |-> text, blocks |-> <<>>]]

None == [sat |-> "none", sol |-> <<>>, mul_sol |-> NoMulSol]

\* What a caller of Solver has reported: the output and exit status of run_solver.py,
\* the is_sat and time entries of the benchmark's results.
NoReport == [out |-> "none", exit |-> "none", is_sat |-> "None", time |-> "none"]

NoModel == [kind |-> "none", steps_count |-> 0, users_count |-> 0, cons |-> {}]

(***************************************************************************)
(* Actions                                                                 *)
(***************************************************************************)
\* What solver_with_timeout has returned: nothing yet, the string "Timeout", a raised
\* exception, or the result dictionary of the solver.
NotReturned == [kind |-> "none", value |-> None]

\* No call of solver_with_timeout is under way.
InitTimeoutIdle ==
    /\ thread = "none"
    /\ result = None
    /\ exception = "None"
    /\ joined = "none"
    /\ returned = NotReturned

\* What a validator has reported: the constraint families it printed a violation of.
NotRun == [ran |-> FALSE, violations |-> {}]

\* No validator has run.
InitValidatorsIdle ==
    /\ solution_file = <<>>
    /\ validation = [validator |-> NotRun, validator2 |-> NotRun, validator3 |-> NotRun]

\* WorkflowSolverApp.__init__: no step, no user, no constraint.
NewApp == [steps |-> <<>>, users |-> <<>>, constraints |-> <<>>, constraints_tree |-> <<>>]

\* A file that does not exist.
NoFile == [exists |-> FALSE, Steps |-> <<>>, Users |-> <<>>, Constraints |-> <<>>, lines |-> <<>>]

\* Neither temp_instance.txt nor an exported problem file exists.
NoFiles == [temp_instance |-> NoFile, exported |-> NoFile]

\* The application is not in use.
InitGuiIdle ==
    /\ app = NewApp
    /\ files = NoFiles
    /\ attempts = <<>>

InitCallers ==
    /\ InitTimeoutIdle
    /\ InitValidatorsIdle
    /\ InitGuiIdle

Init ==
    /\ instance \in Instances
    /\ max_solutions = 1
    /\ solver = "none"
    /\ pc = "ready"
    /\ cp = NoModel
    /\ enumerated = {}
    /\ found = <<>>
    /\ count = 0
    /\ status = "none"
    /\ d = None
    /\ caller = "Solver"
    /\ report = NoReport
    /\ InitCallers

\* Solver(filename, max_solutions=L) of solver_combinatorial, which takes max_solutions
\* among its **kwargs and does not read it, up to the call of the backend.
Build_combinatorial(L) ==
    /\ pc = "ready"
    /\ caller = "Solver" \/ L = 1
    /\ max_solutions' = L
    /\ solver' = "solver_combinatorial"
    /\ IF RaisesInLoop(parse_file_combinatorial(instance).constraints)
       THEN cp' = NoModel /\ pc' = "raised"
       ELSE cp' = ModelCombinatorial(instance) /\ pc' = "built"
    /\ UNCHANGED callerVars
    /\ UNCHANGED <<instance, caller, report, enumerated, found, count, status, d>>

\* Solver(filename, max_solutions=L) of solver_symmetry, likewise.
Build_symmetry(L) ==
    /\ pc = "ready"
    /\ caller = "Solver" \/ L = 1
    /\ max_solutions' = L
    /\ solver' = "solver_symmetry"
    /\ IF RaisesInLoop(parse_file_symmetry(instance).constraints)
       THEN cp' = NoModel /\ pc' = "raised"
       ELSE cp' = ModelSymmetry(instance) /\ pc' = "built"
    /\ UNCHANGED callerVars
    /\ UNCHANGED <<instance, caller, report, enumerated, found, count, status, d>>

\* status = solver.Solve(model) and the result dictionary, for the integer models.
Solve_int ==
    /\ pc = "built"
    /\ cp.kind = "int"
    /\ LET S == IntSolutions(cp)
       IN \E st \in BackendStatuses(S) :
             /\ status' = st
             /\ IF st \in {"OPTIMAL", "FEASIBLE"}
                THEN \E a \in S :
                        d' = [sat |-> "sat", sol |-> FormatInt(a, cp.steps_count),
                              mul_sol |-> NoMulSol]
                ELSE d' = Unsat
    /\ pc' = "done"
    /\ UNCHANGED callerVars
    /\ UNCHANGED <<instance, caller, report, max_solutions, solver, cp, enumerated, found, count>>

\* Solver(filename, max_solutions=L) of solver_doreen, up to the call of the backend.
Build_doreen(L) ==
    /\ pc = "ready"
    /\ caller = "Solver" \/ L = 1
    /\ max_solutions' = L
    /\ solver' = "solver_doreen"
    /\ IF RaisesDoreen(instance.lines)
       THEN cp' = NoModel /\ pc' = "raised"
       ELSE cp' = ModelDoreen(instance) /\ pc' = "built"
    /\ UNCHANGED callerVars
    /\ UNCHANGED <<instance, caller, report, enumerated, found, count, status, d>>

\* solver_doreen, max_solutions <= 1: solver.Solve(model) and the result dictionary.
Solve_bool ==
    /\ pc = "built"
    /\ cp.kind = "bool"
    /\ max_solutions <= 1
    /\ LET S == BoolSolutions(cp)
       IN \E st \in BackendStatuses(S) :
             /\ status' = st
             /\ CASE st = "FEASIBLE" ->
                        \E x \in S : d' = SatDoreen(x, cp, "Multiple solutions may exist")
                  [] st = "OPTIMAL" ->
                        \E x \in S : d' = SatDoreen(x, cp, "Unique solution found")
                  [] OTHER -> d' = Unsat
    /\ pc' = "done"
    /\ UNCHANGED callerVars
    /\ UNCHANGED <<instance, caller, report, max_solutions, solver, cp, enumerated, found, count>>

\* The callback, were it to record every solution reported to it.
on_solution_callback_unlimited ==
    /\ pc = "built"
    /\ cp.kind = "bool"
    /\ max_solutions > 1
    /\ \E fs \in FullSolutions(cp) \ enumerated :
          /\ count' = count + 1
          /\ found' = Append(found, FormatBool(fs.x, cp.steps_count, cp.users_count))
          /\ enumerated' = enumerated \cup {fs}
    /\ UNCHANGED callerVars
    /\ UNCHANGED <<instance, caller, report, max_solutions, solver, cp, status, d, pc>>

\* solver_doreen, max_solutions > 1: SearchForAllSolutions reports one more solution to
\* MultiSolutionCallback.on_solution_callback.
on_solution_callback ==
    /\ pc = "built"
    /\ cp.kind = "bool"
    /\ max_solutions > 1
    /\ \E fs \in FullSolutions(cp) \ enumerated :
          IF count >= max_solutions
          THEN /\ pc' = "stopped"
               /\ UNCHANGED <<enumerated, found, count>>
          ELSE /\ count' = count + 1
               /\ found' = Append(found, FormatBool(fs.x, cp.steps_count, cp.users_count))
               /\ enumerated' = enumerated \cup {fs}
               /\ pc' = pc
    /\ UNCHANGED callerVars
    /\ UNCHANGED <<instance, caller, report, max_solutions, solver, cp, status, d>>

\* SearchForAllSolutions returns (StopSearch was called, the search is exhausted, or the
\* backend stopped at a limit) and the result dictionary is built from solutions_found.
SearchReturns ==
    /\ cp.kind = "bool"
    /\ max_solutions > 1
    /\ \/ pc = "stopped" /\ status' = "FEASIBLE"
       \/ /\ pc = "built"
          /\ enumerated = FullSolutions(cp)
          /\ status' = SolveStatus(enumerated)
       \/ /\ pc = "built"
          /\ enumerated # FullSolutions(cp)
          /\ status' = IF enumerated = {} THEN "UNKNOWN" ELSE "FEASIBLE"
    /\ d' = IF Len(found) > 0
            THEN [sat |-> "sat", sol |-> found[1], mul_sol |-> [text |-> "", blocks |-> found]]
            ELSE Unsat
    /\ pc' = "done"
    /\ UNCHANGED callerVars
    /\ UNCHANGED <<instance, caller, report, max_solutions, solver, cp, enumerated, found, count>>

Next ==
    \/ \E L \in 1..MaxSolutions : Build_combinatorial(L)
    \/ \E L \in 1..MaxSolutions : Build_symmetry(L)
    \/ \E L \in 1..MaxSolutions : Build_doreen(L)
    \/ Solve_int
    \/ Solve_bool
    \/ on_solution_callback
    \/ SearchReturns

\* Every solver on every instance of up to MaxLines constraint lines, asked for one
\* solution or for several.
Spec == Init /\ [][Next]_vars

\* run_solver.py: result = solver_module.Solver(instance_file) returned or raised.
run_solver_main ==
    /\ caller = "run_solver"
    /\ report = NoReport
    /\ \/ /\ pc = "done"
          /\ report' = [NoReport EXCEPT !.out = d.sat, !.exit = "0"]
       \/ /\ pc = "raised"
          /\ report' = [NoReport EXCEPT !.out = "Error: Solver execution failed", !.exit = "1"]
    /\ UNCHANGED callerVars
    /\ UNCHANGED <<instance, max_solutions, solver, pc, cp, enumerated, found, count, status,
                   d, caller>>

\* One run of the loop of run_benchmark over an instance whose is_sat is still None:
\* solver_module.Solver(instance_path) returned or raised.
run_benchmark ==
    /\ caller = "run_benchmark"
    /\ report = NoReport
    /\ \/ /\ pc = "done"
          /\ report' = [NoReport EXCEPT !.is_sat = IF d.sat = "sat" THEN "True" ELSE "False",
                                        !.time = "elapsed_time"]
       \/ /\ pc = "raised"
          /\ report' = [NoReport EXCEPT !.is_sat = "False", !.time = "inf"]
    /\ UNCHANGED callerVars
    /\ UNCHANGED <<instance, max_solutions, solver, pc, cp, enumerated, found, count, status,
                   d, caller>>

InitFiles ==
    /\ instance \in FileInstances
    /\ max_solutions = 1
    /\ solver = "none"
    /\ pc = "ready"
    /\ cp = NoModel
    /\ enumerated = {}
    /\ found = <<>>
    /\ count = 0
    /\ status = "none"
    /\ d = None
    /\ caller \in {"Solver", "run_solver", "run_benchmark"}
    /\ report = NoReport
    /\ InitCallers

NextFiles ==
    \/ Build_combinatorial(1)
    \/ Build_symmetry(1)
    \/ Build_doreen(1)
    \/ Solve_int
    \/ Solve_bool
    \/ run_solver_main
    \/ run_benchmark

\* Every solver, called as Solver(file), by run_solver.py or by the benchmark, on the
\* instance files of one line, well formed or not.
SpecFiles == InitFiles /\ [][NextFiles]_vars

InitWide ==
    /\ instance \in WideInstances
    /\ max_solutions = 1
    /\ solver = "none"
    /\ pc = "ready"
    /\ cp = NoModel
    /\ enumerated = {}
    /\ found = <<>>
    /\ count = 0
    /\ status = "none"
    /\ d = None
    /\ caller = "Solver"
    /\ report = NoReport
    /\ InitCallers

\* The solvers asked for one solution.
NextWide ==
    \/ Build_combinatorial(1)
    \/ Build_symmetry(1)
    \/ Build_doreen(1)
    \/ Solve_int
    \/ Solve_bool

\* Every solver, asked for one solution, on the instances of one constraint line over
\* more steps and users.
SpecWide == InitWide /\ [][NextWide]_vars

InitTeams ==
    /\ instance \in TeamInstances
    /\ max_solutions = 1
    /\ solver = "none"
    /\ pc = "ready"
    /\ cp = NoModel
    /\ enumerated = {}
    /\ found = <<>>
    /\ count = 0
    /\ status = "none"
    /\ d = None
    /\ caller = "Solver"
    /\ report = NoReport
    /\ InitCallers

\* Every solver, asked for one solution, on the instances of one One-team line.
SpecTeams == InitTeams /\ [][NextWide]_vars

InitEnumerate ==
    /\ instance \in EnumInstances
    /\ max_solutions = 1
    /\ solver = "none"
    /\ pc = "ready"
    /\ cp = NoModel
    /\ enumerated = {}
    /\ found = <<>>
    /\ count = 0
    /\ status = "none"
    /\ d = None
    /\ caller = "Solver"
    /\ report = NoReport
    /\ InitCallers

\* solver_doreen asked for several solutions.
NextEnumerate ==
    \/ \E L \in 2..MaxSolutions : Build_doreen(L)
    \/ on_solution_callback
    \/ SearchReturns

\* The enumeration of solver_doreen on the instances of at most one line.  A call of
\* SearchForAllSolutions goes on: while it has not returned, the backend reports a
\* further solution to the callback or returns.
SpecEnumerate ==
    /\ InitEnumerate
    /\ [][NextEnumerate]_vars
    /\ WF_vars(on_solution_callback)
    /\ WF_vars(SearchReturns)

(***************************************************************************)
(* evaluation.py: solver_with_timeout(solver_function, timeout, file).     *)
(* The solver runs in a thread of its own (the Build and Solve actions     *)
(* above); the caller waits in thread.join(timeout).                       *)
(***************************************************************************)
\* target(): solver_function has returned or raised, and the thread stores what it got.
target ==
    /\ caller = "solver_with_timeout"
    /\ thread = "alive"
    /\ result = None
    /\ exception = "None"
    /\ \/ pc = "done" /\ result' = d /\ exception' = exception
       \/ pc = "raised" /\ exception' = "Exception" /\ result' = result
    /\ UNCHANGED <<thread, joined, returned>>
    /\ UNCHANGED <<solverVars, validatorVars, guiVars>>

\* target() is over: the thread is no longer alive.
target_exits ==
    /\ thread = "alive"
    /\ result # None \/ exception # "None"
    /\ thread' = "finished"
    /\ UNCHANGED <<result, exception, joined, returned>>
    /\ UNCHANGED <<solverVars, validatorVars, guiVars>>

\* thread.join(timeout) returns because the thread has finished.
join_returns ==
    /\ joined = "waiting"
    /\ thread = "finished"
    /\ joined' = "finished"
    /\ UNCHANGED <<thread, result, exception, returned>>
    /\ UNCHANGED <<solverVars, validatorVars, guiVars>>

\* thread.join(timeout) returns because timeout seconds have passed.
join_times_out ==
    /\ joined = "waiting"
    /\ thread = "alive"
    /\ joined' = "timeout"
    /\ UNCHANGED <<thread, result, exception, returned>>
    /\ UNCHANGED <<solverVars, validatorVars, guiVars>>

\* The lines after the join, were they to leave out the test of thread.is_alive().
solver_with_timeout_unchecked ==
    /\ joined \in {"finished", "timeout"}
    /\ returned = NotReturned
    /\ returned' = IF exception # "None"
                   THEN [kind |-> "raise", value |-> None]
                   ELSE [kind |-> "result", value |-> result]
    /\ UNCHANGED <<thread, result, exception, joined>>
    /\ UNCHANGED <<solverVars, validatorVars, guiVars>>

\* The lines after the join: "Timeout" if the thread is alive, else the exception is
\* raised again or result[0] is returned.
solver_with_timeout ==
    /\ joined \in {"finished", "timeout"}
    /\ returned = NotReturned
    /\ returned' = IF thread = "alive"
                   THEN [kind |-> "Timeout", value |-> None]
                   ELSE IF exception # "None"
                        THEN [kind |-> "raise", value |-> None]
                        ELSE [kind |-> "result", value |-> result]
    /\ UNCHANGED <<thread, result, exception, joined>>
    /\ UNCHANGED <<solverVars, validatorVars, guiVars>>

\* solver_with_timeout has started the thread and waits in thread.join(timeout).
InitTimeout ==
    /\ instance \in FileInstances
    /\ max_solutions = 1
    /\ solver = "none"
    /\ pc = "ready"
    /\ cp = NoModel
    /\ enumerated = {}
    /\ found = <<>>
    /\ count = 0
    /\ status = "none"
    /\ d = None
    /\ caller = "solver_with_timeout"
    /\ report = NoReport
    /\ thread = "alive"
    /\ result = None
    /\ exception = "None"
    /\ joined = "waiting"
    /\ returned = NotReturned
    /\ InitValidatorsIdle
    /\ InitGuiIdle

NextTimeout ==
    \/ Build_combinatorial(1)
    \/ Build_symmetry(1)
    \/ Build_doreen(1)
    \/ Solve_int
    \/ Solve_bool
    \/ target
    \/ target_exits
    \/ join_returns
    \/ join_times_out
    \/ solver_with_timeout

\* A call of solver_with_timeout on every solver and every instance file of one line,
\* the thread and the caller running at their own speeds.
SpecTimeout == InitTimeout /\ [][NextTimeout]_vars

(***************************************************************************)
(* What an instance means (the data model's invariants), and what a result *)
(* holds.                                                                  *)
(***************************************************************************)
Assignments(inst) == [1..inst.steps -> 1..inst.users]

LinesOfKind(inst, kw) == {i \in DOMAIN inst.lines : inst.lines[i].kw = kw}

AuthLinesOf(inst, u) ==
    {i \in LinesOfKind(inst, "Authorisations") : inst.lines[i].user = u}

\* The Authorisations entry the first-wins policy records for user u.
FirstAuth(inst, u) ==
    inst.lines[CHOOSE i \in AuthLinesOf(inst, u) : \A j \in AuthLinesOf(inst, u) : i <= j]

SatisfiesLine(l, a, inst, i) ==
    CASE l.kw = "Authorisations" ->
            (\A j \in AuthLinesOf(inst, l.user) : i <= j)
                => \A s \in DOMAIN a : a[s] = l.user => s \in l.steps
      [] l.kw = "Separation-of-duty" -> a[l.s1] # a[l.s2]
      [] l.kw = "Binding-of-duty" -> a[l.s1] = a[l.s2]
      [] l.kw = "At-most-k" -> Cardinality({a[s] : s \in l.steps}) <= l.k
      [] l.kw = "One-team" -> \E t \in DOMAIN l.teams : \A s \in l.steps : a[s] \in l.teams[t]
      [] l.kw = "User-capacity" -> Cardinality({s \in DOMAIN a : a[s] = l.user}) <= l.cap

\* a satisfies every constraint of the instance (a repeated Authorisations entry of a
\* user being ignored, as the first-wins policy has it).
Satisfies(inst, a) ==
    \A i \in DOMAIN inst.lines : SatisfiesLine(inst.lines[i], a, inst, i)

Satisfiable(inst) == \E a \in Assignments(inst) : Satisfies(inst, a)

\* The solutions a result returns: the primary one and every block of mul_sol.
ReturnedSolutions ==
    IF pc = "done"
    THEN (IF d.sat = "sat" THEN {d.sol} ELSE {}) \cup Range(d.mul_sol.blocks)
    ELSE {}

\* The users a solution text gives to step s.
UsersOf(sol, s) == {sol[i][2] : i \in {j \in DOMAIN sol : sol[j][1] = s}}

\* The steps a solution text gives to user u.
StepsOf(sol, u) == {sol[i][1] : i \in {j \in DOMAIN sol : sol[j][2] = u}}

\* The solution texts the built model can produce.
Producible(m) ==
    IF m.kind = "int"
    THEN {FormatInt(a, m.steps_count) : a \in IntSolutions(m)}
    ELSE {FormatBool(x, m.steps_count, m.users_count) : x \in BoolSolutions(m)}

\* The model the chosen solver builds for an instance.
ModelOf(name, inst) ==
    CASE name = "solver_combinatorial" -> ModelCombinatorial(inst)
      [] name = "solver_symmetry" -> ModelSymmetry(inst)
      [] name = "solver_doreen" -> ModelDoreen(inst)

(***************************************************************************)
(* The validators validator.py, validator2.py and validator3.py.  Each     *)
(* reads an instance file and a solution file and prints the violations it *)
(* finds; the model keeps, for each, the constraint families it printed a  *)
(* violation of.  A Python value is modelled with its type: the int n, the *)
(* string 's<n>' or 'u<n>', None.                                          *)
(***************************************************************************)
PyInt(n) == [letter |-> "", number |-> n]

PyStr(c, n) == [letter |-> c, number |-> n]

PyNone == [letter |-> "None", number |-> 0]

\* The truth value of `if v`.
Truthy(v) == v # PyNone /\ v # PyInt(0)

\* dict.get(key)
Get(dict, key) == IF key \in DOMAIN dict THEN dict[key] ELSE PyNone

Families ==
    {"Authorisations", "Separation-of-duty", "Binding-of-duty", "At-most-k", "One-team",
     "User-capacity"}

\* The last line of the solution file that names step s.
LastLineOf(sol, s) ==
    CHOOSE i \in DOMAIN sol : sol[i][1] = s /\ \A j \in DOMAIN sol : sol[j][1] = s => j <= i

\* validator.py parse_solution_file, validator2.py parse_solution:
\* step_to_user[int(step[1:])] = int(user[1:])
parse_solution_file(sol) ==
    [key \in {PyInt(sol[i][1]) : i \in DOMAIN sol} |->
        PyInt(sol[LastLineOf(sol, key.number)][2])]

\* validator3.py parse_solution: solution[step] = user, both the strings of the file.
parse_solution(sol) ==
    [key \in {PyStr("s", sol[i][1]) : i \in DOMAIN sol} |->
        PyStr("u", sol[LastLineOf(sol, key.number)][2])]

\* The users that have a line of keyword kw, and the last such line of a user: what a
\* dict assigned line after line holds.
UsersWith(inst, kw) == {inst.lines[i].user : i \in LinesOfKind(inst, kw)}

LastOfUser(inst, kw, u) ==
    CHOOSE i \in LinesOfKind(inst, kw) :
        /\ inst.lines[i].user = u
        /\ \A j \in LinesOfKind(inst, kw) : inst.lines[j].user = u => j <= i

\* user_step_counts.get(user, 0)
UserStepCount(assignments, user) ==
    Cardinality({key \in DOMAIN assignments : assignments[key] = user})

\* validator.py: the families whose validate_... function returns False.
validate_solution_from_solver(inst, sol) ==
    LET step_to_user == parse_solution_file(sol)
        Line(i) == inst.lines[i]
        Assigned(steps) ==
            {Get(step_to_user, PyInt(t)) :
                t \in {x \in steps : Truthy(Get(step_to_user, PyInt(x)))}}
        validate_authorisations ==
            \A i \in LinesOfKind(inst, "Authorisations") :
                \A step \in DOMAIN step_to_user :
                    step_to_user[step] = PyInt(Line(i).user)
                        => step \in {PyInt(x) : x \in Line(i).steps}
        validate_separation_of_duty ==
            \A i \in LinesOfKind(inst, "Separation-of-duty") :
                Get(step_to_user, PyInt(Line(i).s1)) # Get(step_to_user, PyInt(Line(i).s2))
        validate_binding_of_duty ==
            \A i \in LinesOfKind(inst, "Binding-of-duty") :
                Get(step_to_user, PyInt(Line(i).s1)) = Get(step_to_user, PyInt(Line(i).s2))
        validate_at_most_k ==
            \A i \in LinesOfKind(inst, "At-most-k") :
                Cardinality(Assigned(Line(i).steps)) <= Line(i).k
        validate_one_team ==
            \A i \in LinesOfKind(inst, "One-team") :
                \E t \in DOMAIN Line(i).teams :
                    \A user \in Assigned(Line(i).steps) :
                        user \in {PyInt(u) : u \in Line(i).teams[t]}
        validate_user_capacity ==
            \A u \in UsersWith(inst, "User-capacity") :
                UserStepCount(step_to_user, PyInt(u))
                    <= Line(LastOfUser(inst, "User-capacity", u)).cap
    IN {f \in Families :
          ~ CASE f = "Authorisations" -> validate_authorisations
              [] f = "Separation-of-duty" -> validate_separation_of_duty
              [] f = "Binding-of-duty" -> validate_binding_of_duty
              [] f = "At-most-k" -> validate_at_most_k
              [] f = "One-team" -> validate_one_team
              [] f = "User-capacity" -> validate_user_capacity}

\* validator2.py, WSPValidator.parse_problem and validate_solution: the families of the
\* errors appended, or the one error of a solution that does not assign every step.
validate_solution(inst, sol) ==
    LET assignments == parse_solution_file(sol)
        Line(i) == inst.lines[i]
        \* self.authorisations[user] = steps
        authorisations ==
            [user \in {PyInt(u) : u \in UsersWith(inst, "Authorisations")} |->
                {PyInt(x) : x \in Line(LastOfUser(inst, "Authorisations", user.number)).steps}]
        Assigned(steps) ==
            {Get(assignments, PyInt(t)) :
                t \in {x \in steps : Get(assignments, PyInt(x)) # PyNone}}
        PresentUsers(steps) ==
            {assignments[PyInt(t)] : t \in {x \in steps : PyInt(x) \in DOMAIN assignments}}
        authorisation_errors ==
            \E step \in DOMAIN assignments :
                /\ assignments[step] \in DOMAIN authorisations
                /\ step \notin authorisations[assignments[step]]
        separation_errors ==
            \E i \in LinesOfKind(inst, "Separation-of-duty") :
                Get(assignments, PyInt(Line(i).s1)) = Get(assignments, PyInt(Line(i).s2))
        binding_errors ==
            \E i \in LinesOfKind(inst, "Binding-of-duty") :
                Get(assignments, PyInt(Line(i).s1)) # Get(assignments, PyInt(Line(i).s2))
        at_most_k_errors ==
            \E i \in LinesOfKind(inst, "At-most-k") :
                Cardinality(Assigned(Line(i).steps)) > Line(i).k
        one_team_errors ==
            \E i \in LinesOfKind(inst, "One-team") :
                ~ \E t \in DOMAIN Line(i).teams :
                      \A user \in PresentUsers(Line(i).steps) :
                          user \in {PyInt(u) : u \in Line(i).teams[t]}
        user_capacity_errors ==
            \E u \in UsersWith(inst, "User-capacity") :
                UserStepCount(assignments, PyInt(u))
                    > Line(LastOfUser(inst, "User-capacity", u)).cap
    IN IF Cardinality(DOMAIN assignments) # inst.steps
       THEN {"Not all steps are assigned"}
       ELSE {f \in Families :
               CASE f = "Authorisations" -> authorisation_errors
                 [] f = "Separation-of-duty" -> separation_errors
                 [] f = "Binding-of-duty" -> binding_errors
                 [] f = "At-most-k" -> at_most_k_errors
                 [] f = "One-team" -> one_team_errors
                 [] f = "User-capacity" -> user_capacity_errors}

\* validator3.py, parse_problem_instance and the validate_... functions of main: the
\* families a violation is printed of.  Steps and users stay the strings of the files,
\* but for the steps and teams of a One-team line, which are converted to ints.
validator3_main(inst, sol) ==
    LET solution == parse_solution(sol)
        Line(i) == inst.lines[i]
        \* authorizations[user].append(step), a defaultdict: a user has an entry once a
        \* step has been appended for it
        AllSteps(u) == UNION {Line(i).steps : i \in AuthLinesOf(inst, u)}
        authorizations ==
            [user \in {PyStr("u", u) : u \in {x \in UsersWith(inst, "Authorisations") :
                                                AllSteps(x) # {}}} |->
                {PyStr("s", x) : x \in AllSteps(user.number)}]
        validate_authorizations ==
            \E step \in DOMAIN solution :
                /\ solution[step] \in DOMAIN authorizations
                /\ step \notin authorizations[solution[step]]
        validate_separation_of_duty ==
            \E i \in LinesOfKind(inst, "Separation-of-duty") :
                LET user1 == Get(solution, PyStr("s", Line(i).s1))
                    user2 == Get(solution, PyStr("s", Line(i).s2))
                IN Truthy(user1) /\ Truthy(user2) /\ user1 = user2
        validate_binding_of_duty ==
            \E i \in LinesOfKind(inst, "Binding-of-duty") :
                LET user1 == Get(solution, PyStr("s", Line(i).s1))
                    user2 == Get(solution, PyStr("s", Line(i).s2))
                IN Truthy(user1) /\ Truthy(user2) /\ user1 # user2
        validate_at_most_k ==
            \E i \in LinesOfKind(inst, "At-most-k") :
                Cardinality({Get(solution, PyStr("s", t)) :
                               t \in {x \in Line(i).steps :
                                        Truthy(Get(solution, PyStr("s", x)))}}) > Line(i).k
        \* steps = [int(s) ...]; solution.get(step) looks an int up among the strings
        validate_one_team ==
            \E i \in LinesOfKind(inst, "One-team") :
                LET assigned_users ==
                        {Get(solution, PyInt(t)) :
                            t \in {x \in Line(i).steps : Truthy(Get(solution, PyInt(x)))}}
                IN ~ \E t \in DOMAIN Line(i).teams :
                        \A user \in assigned_users :
                            user \in {PyInt(u) : u \in Line(i).teams[t]}
        validate_user_capacity ==
            \E u \in UsersWith(inst, "User-capacity") :
                UserStepCount(solution, PyStr("u", u))
                    > Line(LastOfUser(inst, "User-capacity", u)).cap
    IN {f \in Families :
          CASE f = "Authorisations" -> validate_authorizations
            [] f = "Separation-of-duty" -> validate_separation_of_duty
            [] f = "Binding-of-duty" -> validate_binding_of_duty
            [] f = "At-most-k" -> validate_at_most_k
            [] f = "One-team" -> validate_one_team
            [] f = "User-capacity" -> validate_user_capacity}

Ran(violations) == [ran |-> TRUE, violations |-> violations]

\* python validator.py <problem_file> <solution_file>
validator_py ==
    /\ caller = "validators"
    /\ ~ validation.validator.ran
    /\ validation' = [validation EXCEPT
                         !.validator = Ran(validate_solution_from_solver(instance, solution_file))]
    /\ UNCHANGED <<solverVars, timeoutVars, guiVars, solution_file>>

\* python validator2.py <problem_file> <solution_file>
validator2_py ==
    /\ caller = "validators"
    /\ ~ validation.validator2.ran
    /\ validation' = [validation EXCEPT
                         !.validator2 = Ran(validate_solution(instance, solution_file))]
    /\ UNCHANGED <<solverVars, timeoutVars, guiVars, solution_file>>

\* python validator3.py <problem_instance_file> <solution_file>
validator3_py ==
    /\ caller = "validators"
    /\ ~ validation.validator3.ran
    /\ validation' = [validation EXCEPT
                         !.validator3 = Ran(validator3_main(instance, solution_file))]
    /\ UNCHANGED <<solverVars, timeoutVars, guiVars, solution_file>>

\* An instance file and a solution file that assigns one user to every step.
InitValidators ==
    /\ instance \in Instances
    /\ max_solutions = 1
    /\ solver = "none"
    /\ pc = "ready"
    /\ cp = NoModel
    /\ enumerated = {}
    /\ found = <<>>
    /\ count = 0
    /\ status = "none"
    /\ d = None
    /\ caller = "validators"
    /\ report = NoReport
    /\ InitTimeoutIdle
    /\ solution_file \in {FormatInt(a, instance.steps) : a \in Assignments(instance)}
    /\ validation = [validator |-> NotRun, validator2 |-> NotRun, validator3 |-> NotRun]
    /\ InitGuiIdle

NextValidators ==
    \/ validator_py
    \/ validator2_py
    \/ validator3_py

\* The three validators run, in any order, on every instance of up to MaxLines lines
\* and every complete solution text.
SpecValidators == InitValidators /\ [][NextValidators]_vars

\* complete.py display_results with validation enabled, for a result of one solution:
\* the lines of d['sol'] are written to temp_solution_1.txt and run_validators runs the
\* three scripts on the instance file and that file.
run_validators ==
    /\ caller = "display_results"
    /\ pc = "done"
    /\ d.sat = "sat"
    /\ ~ validation.validator.ran
    /\ solution_file' = d.sol
    /\ validation' = [validator |-> Ran(validate_solution_from_solver(instance, d.sol)),
                      validator2 |-> Ran(validate_solution(instance, d.sol)),
                      validator3 |-> Ran(validator3_main(instance, d.sol))]
    /\ UNCHANGED <<solverVars, timeoutVars, guiVars>>

InitDisplay ==
    /\ instance \in Instances
    /\ max_solutions = 1
    /\ solver = "none"
    /\ pc = "ready"
    /\ cp = NoModel
    /\ enumerated = {}
    /\ found = <<>>
    /\ count = 0
    /\ status = "none"
    /\ d = None
    /\ caller = "display_results"
    /\ report = NoReport
    /\ InitCallers

NextDisplay ==
    \/ Build_combinatorial(1)
    \/ Solve_int
    \/ run_validators

\* solver_combinatorial solves an instance of up to MaxLines lines for the application,
\* which has the validators check the solution.
SpecDisplay == InitDisplay /\ [][NextDisplay]_vars

(***************************************************************************)
(* complete.py: the editor of WorkflowSolverApp.  A constraint is the      *)
(* string the application builds; a string is modelled by its words (what  *)
(* split() returns), a word by its characters, the keyword at the head of  *)
(* a line being kept whole.  app.constraints is self.constraints,          *)
(* app.constraints_tree the rows (type, details) of the Treeview.          *)
(* self.user_capacity_constraints is a dict that nothing fills.            *)
(***************************************************************************)
DigitChars == <<"0", "1", "2", "3", "4", "5", "6", "7", "8", "9">>

\* f"{n}"
Decimal(n) ==
    IF n < 10
    THEN <<DigitChars[n + 1]>>
    ELSE <<DigitChars[(n \div 10) + 1], DigitChars[(n % 10) + 1]>>

\* int(word) succeeds, and its value.
IsDecimal(word) == \E n \in 0..99 : Decimal(n) = word

IntOf(word) == CHOOSE n \in 0..99 : Decimal(n) = word

Keyword(kw) == <<kw>>

\* f"s{n}", f"u{n}"
Label(c, n) == <<c>> \o Decimal(n)

\* label in constraint, for a label without a space
Contains(constraint, label) ==
    \E i \in DOMAIN constraint :
        \E k \in 1..Len(constraint[i]) :
            /\ k + Len(label) - 1 <= Len(constraint[i])
            /\ SubSeq(constraint[i], k, k + Len(label) - 1) = label

\* constraint.startswith(kw)
startswith(constraint, kw) == constraint # <<>> /\ constraint[1] = Keyword(kw)

\* list.index(x) + 1
IndexOf(list, x) == CHOOSE i \in DOMAIN list : list[i] = x /\ \A j \in DOMAIN list : list[j] = x => i <= j

RemoveAt(list, i) == SubSeq(list, 1, i - 1) \o SubSeq(list, i + 1, Len(list))

\* list.remove(x)
RemoveFirst(list, x) == RemoveAt(list, IndexOf(list, x))

\* [x for x in list if Keep(x)]
Filter(list, Keep(_)) == SelectSeq(list, Keep)

RECURSIVE Join(_)
\* ' '.join(strings), as words
Join(strings) == IF strings = <<>> THEN <<>> ELSE Head(strings) \o Join(Tail(strings))

\* The items a multiple-selection listbox over list returns for the selected indices.
Selected(list, indices) == LET ix == SeqOfSet(indices) IN [i \in DOMAIN ix |-> list[ix[i]]]

\* [f's{self.steps.index(step) + 1}' for step in selected]
Formatted(c, list, selected) == [i \in DOMAIN selected |-> Label(c, IndexOf(list, selected[i]))]

\* '(' + ' '.join([f'u{self.users.index(u) + 1}' for u in team_users]) + ')'
team_str(users, team_users) ==
    LET ws == Formatted("u", users, team_users)
    IN [i \in DOMAIN ws |->
          (IF i = 1 THEN <<"(">> ELSE <<>>) \o ws[i] \o (IF i = Len(ws) THEN <<")">> ELSE <<>>)]

\* The type column update_constraints_tree gives a constraint.
constraint_type(constraint) ==
    CASE startswith(constraint, "Authorisations") -> "Authorisation"
      [] startswith(constraint, "Separation-of-duty") -> "Separation-of-Duty"
      [] startswith(constraint, "Binding-of-duty") -> "Binding-of-Duty"
      [] startswith(constraint, "At-most-k") -> "At-Most-k"
      [] startswith(constraint, "One-team") -> "One-Team"
      [] startswith(constraint, "User-capacity") -> "User-Capacity"
      [] OTHER -> "Unknown"

\* update_constraints_tree: the tree is cleared and one row per constraint inserted.
update_constraints_tree(constraints) ==
    [i \in DOMAIN constraints |-> <<constraint_type(constraints[i]), constraints[i]>>]

\* The rest of the state when the editor acts.
EditorFrame == UNCHANGED <<solverVars, timeoutVars, validatorVars, files, attempts>>

add_step ==
    /\ Len(app.steps) < MaxSteps
    /\ app' = [app EXCEPT !.steps = Append(@, Label("s", Len(app.steps) + 1))]
    /\ EditorFrame

remove_step ==
    /\ app.steps # <<>>
    /\ LET step_label == app.steps[Len(app.steps)]
           Keep(c) == ~ Contains(c, step_label)
           constraints == Filter(app.constraints, Keep)
       IN app' = [app EXCEPT !.steps = SubSeq(@, 1, Len(@) - 1),
                             !.constraints = constraints,
                             !.constraints_tree = update_constraints_tree(constraints)]
    /\ EditorFrame

add_user ==
    /\ Len(app.users) < MaxUsers
    /\ app' = [app EXCEPT !.users = Append(@, Label("u", Len(app.users) + 1))]
    /\ EditorFrame

remove_user ==
    /\ app.users # <<>>
    /\ LET user_label == app.users[Len(app.users)]
           Keep(c) == ~ Contains(c, user_label)
           constraints == Filter(app.constraints, Keep)
       IN app' = [app EXCEPT !.users = SubSeq(@, 1, Len(@) - 1),
                             !.constraints = constraints,
                             !.constraints_tree = update_constraints_tree(constraints)]
    /\ EditorFrame

\* The tail of every add_..._constraint: the constraint is appended to self.constraints
\* and a row inserted at the end of the tree.
Added(type, constraint) ==
    /\ Len(app.constraints) < MaxLines
    /\ app' = [app EXCEPT !.constraints = Append(@, constraint),
                          !.constraints_tree = Append(@, <<type, constraint>>)]
    /\ EditorFrame

add_authorisation_constraint ==
    /\ app.users # <<>>
    /\ app.steps # <<>>
    /\ \E u \in DOMAIN app.users : \E indices \in NonEmpty(DOMAIN app.steps) :
          Added("Authorisation",
                <<Keyword("Authorisations"), app.users[u]>> \o Selected(app.steps, indices))

add_separation_constraint ==
    /\ Len(app.steps) >= 2
    /\ \E p \in StepPairs(Len(app.steps)) :
          Added("Separation-of-Duty",
                <<Keyword("Separation-of-duty"),
                  Label("s", IndexOf(app.steps, app.steps[p[1]])),
                  Label("s", IndexOf(app.steps, app.steps[p[2]]))>>)

add_binding_constraint ==
    /\ Len(app.steps) >= 2
    /\ \E p \in StepPairs(Len(app.steps)) :
          Added("Binding-of-Duty",
                <<Keyword("Binding-of-duty"),
                  Label("s", IndexOf(app.steps, app.steps[p[1]])),
                  Label("s", IndexOf(app.steps, app.steps[p[2]]))>>)

add_atmostk_constraint ==
    /\ Len(app.steps) >= 1
    /\ \E k \in 1..MaxSteps : \E indices \in NonEmpty(DOMAIN app.steps) :
          Added("At-Most-k",
                <<Keyword("At-most-k"), Decimal(k)>>
                    \o Formatted("s", app.steps, Selected(app.steps, indices)))

add_oneteam_constraint ==
    /\ Len(app.steps) >= 1
    /\ Len(app.users) >= 1
    /\ \E indices \in NonEmpty(DOMAIN app.steps) : \E T \in TeamLists(Len(app.users)) :
          Added("One-Team",
                <<Keyword("One-team")>>
                    \o Formatted("s", app.steps, Selected(app.steps, indices))
                    \o Join([t \in DOMAIN T |-> team_str(app.users, Selected(app.users, T[t]))]))

add_user_capacity_constraint ==
    /\ app.users # <<>>
    /\ \E u \in DOMAIN app.users : \E capacity \in 1..MaxSteps :
          Added("User-Capacity",
                <<Keyword("User-capacity"), app.users[u], Decimal(capacity)>>)

\* remove_constraint with the row `item` of the tree selected.  For a User-capacity row
\* self.user_capacity_constraints.remove(constraint) is called on a dict, which has no
\* remove: the AttributeError ends the callback after the row has been deleted.
remove_constraint(item) ==
    /\ item \in DOMAIN app.constraints_tree
    /\ LET constraint == app.constraints_tree[item][2]
           constraints == RemoveFirst(app.constraints, constraint)
       IN IF startswith(constraint, "User-capacity")
          THEN app' = [app EXCEPT !.constraints_tree = RemoveAt(@, item)]
          ELSE app' = [app EXCEPT !.constraints = constraints,
                                  !.constraints_tree = update_constraints_tree(constraints)]
    /\ EditorFrame

\* No instance file has been given to a solver.
NoInstance == [steps |-> 0, users |-> 0, lines |-> <<>>]

\* The application has been opened.
InitEditor ==
    /\ instance = NoInstance
    /\ max_solutions = 1
    /\ solver = "none"
    /\ pc = "ready"
    /\ cp = NoModel
    /\ enumerated = {}
    /\ found = <<>>
    /\ count = 0
    /\ status = "none"
    /\ d = None
    /\ caller = "WorkflowSolverApp"
    /\ report = NoReport
    /\ InitCallers

NextEditor ==
    \/ add_step
    \/ remove_step
    \/ add_user
    \/ remove_user
    \/ add_authorisation_constraint
    \/ add_separation_constraint
    \/ add_binding_constraint
    \/ add_atmostk_constraint
    \/ add_oneteam_constraint
    \/ add_user_capacity_constraint
    \/ \E item \in 1..MaxLines : remove_constraint(item)

\* Every sequence of editor operations over up to MaxSteps steps, MaxUsers users and
\* MaxLines constraints.
SpecEditor == InitEditor /\ [][NextEditor]_vars

(***************************************************************************)
(* complete.py: export_problem and import_problem.                         *)
(***************************************************************************)
\* The text export_problem (and run_solver, for temp_instance.txt) writes: the three
\* header lines and one line per entry of self.constraints.
ProblemFile(a) ==
    [exists |-> TRUE,
     Steps |-> Decimal(Len(a.steps)),
     Users |-> Decimal(Len(a.users)),
     Constraints |-> Decimal(Len(a.constraints)),
     lines |-> a.constraints]

export_problem ==
    /\ files' = [files EXCEPT !.exported = ProblemFile(app)]
    /\ UNCHANGED <<solverVars, timeoutVars, validatorVars, app, attempts>>

\* The keys of a dict filled in the order of list: each value once, at its first place.
Keys(list) ==
    Selected(list, {i \in DOMAIN list : \A j \in 1..(i - 1) : list[j] # list[i]})

\* import_problem of the exported file.  parse_file keeps the User-capacity lines apart,
\* in a dict from parts[1] to int(parts[2]); import_problem then appends, for each key uc
\* of that dict, f"User-capacity {uc[0]} {uc[1]}": the first two characters of the key.
\* An exception of parse_file leaves the editor as it is; one raised by uc[1] ends the
\* import after steps, users and constraints have been replaced and before the tree is
\* refreshed.
import_problem ==
    /\ files.exported.exists
    /\ LET file == files.exported
           IsUserCapacity(line) == startswith(line, "User-capacity")
           IsOther(line) == ~ IsUserCapacity(line)
           capacity_lines == SelectSeq(file.lines, IsUserCapacity)
           ParseRaises ==
               \E i \in DOMAIN capacity_lines :
                   Len(capacity_lines[i]) < 3 \/ ~ IsDecimal(capacity_lines[i][3])
           user_capacity_constraints == Keys([i \in DOMAIN capacity_lines |-> capacity_lines[i][2]])
           appended ==
               {i \in DOMAIN user_capacity_constraints :
                   \A j \in 1..i : Len(user_capacity_constraints[j]) >= 2}
           constraints ==
               SelectSeq(file.lines, IsOther)
                   \o [i \in 1..Cardinality(appended) |->
                         <<Keyword("User-capacity"),
                           <<user_capacity_constraints[i][1]>>,
                           <<user_capacity_constraints[i][2]>>>>]
       IN IF ParseRaises
          THEN UNCHANGED app
          ELSE app' = [steps |-> [i \in 1..IntOf(file.Steps) |-> Label("s", i)],
                       users |-> [i \in 1..IntOf(file.Users) |-> Label("u", i)],
                       constraints |-> constraints,
                       constraints_tree |->
                           IF Cardinality(appended) = Len(user_capacity_constraints)
                           THEN update_constraints_tree(constraints)
                           ELSE app.constraints_tree]
    /\ UNCHANGED <<solverVars, timeoutVars, validatorVars, files, attempts>>

\* A problem is built in the editor, exported, and the exported file imported.
NextRoundTrip ==
    \/ ~ files.exported.exists /\ add_step
    \/ ~ files.exported.exists /\ add_user
    \/ ~ files.exported.exists /\ add_authorisation_constraint
    \/ ~ files.exported.exists /\ add_separation_constraint
    \/ ~ files.exported.exists /\ add_binding_constraint
    \/ ~ files.exported.exists /\ add_atmostk_constraint
    \/ ~ files.exported.exists /\ add_oneteam_constraint
    \/ ~ files.exported.exists /\ add_user_capacity_constraint
    \/ export_problem
    \/ import_problem

SpecRoundTrip == InitEditor /\ [][NextRoundTrip]_vars

(***************************************************************************)
(* complete.py: solve_problem, run_solver, solver_callback and             *)
(* display_results.  Every click on "Solve Problem" starts a thread that   *)
(* runs run_solver; run_solver starts a second thread for solver_callback, *)
(* which hands display_results to the event loop.  All of them name the    *)
(* one file 'temp_instance.txt' of the working directory.  An attempt      *)
(* records the text run_solver wrote for it (instance) and the text the    *)
(* Solver read for it (solved): result_dict is the Solver's answer for the *)
(* text it read.                                                           *)
(***************************************************************************)
SolveFrame == UNCHANGED <<solverVars, timeoutVars, validatorVars, app>>

\* solve_problem and run_solver: open(temp_filename, 'w') creates or replaces the file
\* with the problem of the editor as it is now, then the solver thread is started.
run_solver ==
    /\ Len(attempts) < MaxAttempts
    /\ files' = [files EXCEPT !.temp_instance = ProblemFile(app)]
    /\ attempts' = Append(attempts, [pc |-> "solver_callback",
                                     instance |-> ProblemFile(app),
                                     solved |-> NoFile])
    /\ SolveFrame

\* solver_callback: solver_module.Solver(temp_filename, ...) opens the file by its name;
\* open raises FileNotFoundError in the solver thread when the file is not there, and
\* the attempt ends without display_results.
solver_callback(i) ==
    /\ i \in DOMAIN attempts
    /\ attempts[i].pc = "solver_callback"
    /\ attempts' = [attempts EXCEPT ![i] =
           IF files.temp_instance.exists
           THEN [@ EXCEPT !.pc = "display_results", !.solved = files.temp_instance]
           ELSE [@ EXCEPT !.pc = "FileNotFoundError"]]
    /\ UNCHANGED files
    /\ SolveFrame

\* display_results: shows the result, then os.remove(temp_filename) on both branches of
\* d['sat']; os.remove raises FileNotFoundError when the file is not there.
display_results(i) ==
    /\ i \in DOMAIN attempts
    /\ attempts[i].pc = "display_results"
    /\ IF files.temp_instance.exists
       THEN /\ files' = [files EXCEPT !.temp_instance = NoFile]
            /\ attempts' = [attempts EXCEPT ![i].pc = "displayed"]
       ELSE /\ attempts' = [attempts EXCEPT ![i].pc = "FileNotFoundError"]
            /\ UNCHANGED files
    /\ SolveFrame

\* The user edits the problem and clicks "Solve Problem"; the threads run as scheduled.
NextSolve ==
    \/ add_step
    \/ add_user
    \/ add_separation_constraint
    \/ add_user_capacity_constraint
    \/ run_solver
    \/ \E i \in 1..MaxAttempts : solver_callback(i)
    \/ \E i \in 1..MaxAttempts : display_results(i)

SpecSolve == InitEditor /\ [][NextSolve]_vars

(***************************************************************************)
(* C1: every solver returns sat = 'sat' exactly when some total assignment *)
(* of users to steps satisfies every constraint of the instance (so the    *)
(* three solvers agree on every instance), stated of the solves the        *)
(* backend completes.                                                      *)
(***************************************************************************)
C1_VerdictIsSatisfiability ==
    (pc = "done" /\ status \in {"OPTIMAL", "INFEASIBLE"})
        => (d.sat = "sat" <=> Satisfiable(instance))

(***************************************************************************)
(* C2: in every returned solution (single- or multi-solution mode) every   *)
(* step 1..stepsCount has exactly one line, and its user is in             *)
(* 1..usersCount.                                                          *)
(***************************************************************************)
C2_TotalFunctional ==
    \A sol \in ReturnedSolutions :
        /\ \A s \in 1..instance.steps : Cardinality({i \in DOMAIN sol : sol[i][1] = s}) = 1
        /\ \A i \in DOMAIN sol : sol[i][1] \in 1..instance.steps /\ sol[i][2] \in 1..instance.users

C2_Witness ==
    /\ pc = "done"
    /\ solver = "solver_doreen"
    /\ instance.steps = MaxSteps
    /\ Len(d.mul_sol.blocks) = MaxSolutions

\* The instance with the lines at the positions of keep only, in their order.
KeepLines(inst, keep) ==
    LET idx == SeqOfSet(keep)
    IN [inst EXCEPT !.lines = [n \in DOMAIN idx |-> inst.lines[idx[n]]]]

(***************************************************************************)
(* C3: for every Authorisations entry (u, A) the instance declares, every  *)
(* step a returned solution gives to u lies in A.  Stated of the entry the *)
(* first-wins policy records for u, the first one, which every reading of  *)
(* the claim covers.                                                       *)
(***************************************************************************)
C3_AuthorisationHolds ==
    \A sol \in ReturnedSolutions :
        \A u \in 1..instance.users :
            AuthLinesOf(instance, u) # {}
                => StepsOf(sol, u) \subseteq FirstAuth(instance, u).steps

\* The instance without the Authorisations lines that repeat a user.
FirstAuthOnly(inst) ==
    KeepLines(inst, {i \in DOMAIN inst.lines :
                        inst.lines[i].kw = "Authorisations"
                            => \A j \in AuthLinesOf(inst, inst.lines[i].user) : i <= j})

(***************************************************************************)
(* C4: with several Authorisations lines for one user every solver applies *)
(* the first only: the solutions it can produce (and so its verdict) are   *)
(* those of the instance without the later lines of that user.             *)
(***************************************************************************)
C4_FirstAuthorisationWins ==
    pc = "built" => Producible(cp) = Producible(ModelOf(solver, FirstAuthOnly(instance)))

\* The users whose Authorisations entry, the first line that names them, lists no step.
DeclaredEmpty(inst) ==
    {u \in 1..inst.users : AuthLinesOf(inst, u) # {} /\ FirstAuth(inst, u).steps = {}}

\* The users without an Authorisations line.
Undeclared(inst) == {u \in 1..inst.users : AuthLinesOf(inst, u) = {}}

\* The model forbids step s to user u outright.
Forbids(m, s, u) ==
    IF m.kind = "int" THEN NotUser(s, u) \in m.cons ELSE Zero(s - 1, u - 1) \in m.cons

(***************************************************************************)
(* C5: a user with no Authorisations line is forbidden no step by the      *)
(* model a solver builds, and a user whose Authorisations line lists no    *)
(* step is given no step in any returned solution.                         *)
(***************************************************************************)
C5_UndeclaredAndEmpty ==
    /\ pc \in {"built", "stopped", "done"}
          => \A u \in Undeclared(instance) : \A s \in 1..instance.steps : ~Forbids(cp, s, u)
    /\ \A sol \in ReturnedSolutions : \A u \in DeclaredEmpty(instance) : StepsOf(sol, u) = {}

(***************************************************************************)
(* C6: for every Separation-of-duty line (s1, s2), every returned solution *)
(* gives s1 and s2 different users.                                        *)
(***************************************************************************)
C6_SeparationOfDuty ==
    \A sol \in ReturnedSolutions :
        \A i \in LinesOfKind(instance, "Separation-of-duty") :
            UsersOf(sol, instance.lines[i].s1) \cap UsersOf(sol, instance.lines[i].s2) = {}

C6_Witness ==
    /\ pc = "done"
    /\ d.sat = "sat"
    /\ solver = "solver_combinatorial"
    /\ instance.steps = MaxStepsWide
    /\ \E i \in LinesOfKind(instance, "Separation-of-duty") :
          UsersOf(d.sol, instance.lines[i].s1) # UsersOf(d.sol, instance.lines[i].s2)

(***************************************************************************)
(* C7: for every Binding-of-duty line (s1, s2), every returned solution    *)
(* gives s1 and s2 the same user.                                          *)
(***************************************************************************)
C7_BindingOfDuty ==
    \A sol \in ReturnedSolutions :
        \A i \in LinesOfKind(instance, "Binding-of-duty") :
            \A u1 \in UsersOf(sol, instance.lines[i].s1) :
                \A u2 \in UsersOf(sol, instance.lines[i].s2) : u1 = u2

C7_Witness ==
    /\ pc = "done"
    /\ d.sat = "sat"
    /\ solver = "solver_doreen"
    /\ instance.users = MaxUsersWide
    /\ \E i \in LinesOfKind(instance, "Binding-of-duty") :
          UsersOf(d.sol, instance.lines[i].s1) = UsersOf(d.sol, instance.lines[i].s2)

(***************************************************************************)
(* C8: for every At-most-k line (k, S), every returned solution uses at    *)
(* most k distinct users on the steps of S.                                *)
(***************************************************************************)
C8_AtMostK ==
    \A sol \in ReturnedSolutions :
        \A i \in LinesOfKind(instance, "At-most-k") :
            Cardinality(UNION {UsersOf(sol, s) : s \in instance.lines[i].steps})
                <= instance.lines[i].k

\* A solution of solver_combinatorial under an At-most-k line with 1 < k < |S| that uses
\* exactly k users on S.
C8_Witness ==
    /\ pc = "done"
    /\ d.sat = "sat"
    /\ solver = "solver_combinatorial"
    /\ \E i \in LinesOfKind(instance, "At-most-k") :
          /\ instance.lines[i].k < Cardinality(instance.lines[i].steps)
          /\ instance.lines[i].k > 1
          /\ instance.lines[i].k < instance.users
          /\ Cardinality(UNION {UsersOf(d.sol, s) : s \in instance.lines[i].steps})
                = instance.lines[i].k

\* The assignments with at most k distinct users on S, for every At-most-k line (k, S).
AtMostKAssignments(inst) ==
    {a \in Assignments(inst) :
        \A i \in LinesOfKind(inst, "At-most-k") :
            Cardinality({a[s] : s \in inst.lines[i].steps}) <= inst.lines[i].k}

(***************************************************************************)
(* C9: on an instance of At-most-k lines the direct encoding               *)
(* (solver_combinatorial) and the symmetry-reduced encoding                *)
(* (solver_symmetry) admit the same assignments: those with at most k      *)
(* distinct users on S, for all k, |S| and usersCount.                     *)
(***************************************************************************)
C9_EncodingsEquivalent ==
    (/\ pc = "built"
     /\ solver = "solver_symmetry"
     /\ \A i \in DOMAIN instance.lines : instance.lines[i].kw = "At-most-k")
        => /\ IntSolutions(ModelCombinatorial(instance)) = AtMostKAssignments(instance)
           /\ IntSolutions(cp) = AtMostKAssignments(instance)

\* The instance without the At-most-k lines whose k is at least the number of their steps.
WithoutTrivialAtMostK(inst) ==
    KeepLines(inst, {i \in DOMAIN inst.lines :
                        inst.lines[i].kw = "At-most-k"
                            => inst.lines[i].k < Cardinality(inst.lines[i].steps)})

(***************************************************************************)
(* C10: an At-most-k line with k >= |S| is skipped under the direct and    *)
(* the symmetry-reduced strategy: the model admits the assignments it      *)
(* would admit were the line absent.                                       *)
(***************************************************************************)
C10_TrivialAtMostKSkipped ==
    (pc = "built" /\ solver \in {"solver_combinatorial", "solver_symmetry"})
        => IntSolutions(cp) = IntSolutions(ModelOf(solver, WithoutTrivialAtMostK(instance)))

(***************************************************************************)
(* C11: an instance with an At-most-k line of k = 0 over a non-empty step  *)
(* set is reported unsat by every solver.                                  *)
(***************************************************************************)
C11_AtMostZeroUnsat ==
    (/\ pc = "done"
     /\ \E i \in LinesOfKind(instance, "At-most-k") :
           instance.lines[i].k = 0 /\ instance.lines[i].steps # {})
        => d.sat = "unsat" /\ d.sol = <<>>

C11_Witness ==
    /\ pc = "done"
    /\ solver = "solver_symmetry"
    /\ d.sat = "unsat"
    /\ instance.users = MaxUsersWide
    /\ \E i \in LinesOfKind(instance, "At-most-k") :
          instance.lines[i].k = 0 /\ Cardinality(instance.lines[i].steps) = 1

(***************************************************************************)
(* C12: for every One-team line (S, teams), every returned solution gives  *)
(* the steps of S users of one single team of the line.                    *)
(***************************************************************************)
C12_OneTeam ==
    \A sol \in ReturnedSolutions :
        \A i \in LinesOfKind(instance, "One-team") :
            \E t \in DOMAIN instance.lines[i].teams :
                \A s \in instance.lines[i].steps :
                    UsersOf(sol, s) \subseteq instance.lines[i].teams[t]

\* A solution of solver_combinatorial that gives the two steps of a One-team line two
\* users of one of its two teams.
C12_Witness ==
    /\ pc = "done"
    /\ d.sat = "sat"
    /\ solver = "solver_combinatorial"
    /\ \E i \in LinesOfKind(instance, "One-team") :
          /\ Len(instance.lines[i].teams) = MaxTeams
          /\ instance.lines[i].steps = 1..MaxSteps
          /\ UsersOf(d.sol, 1) # UsersOf(d.sol, MaxSteps)

\* The lines at positions i < j are One-team lines that share a step.
SharedStep(inst, i, j) ==
    /\ i < j
    /\ inst.lines[i].kw = "One-team"
    /\ inst.lines[j].kw = "One-team"
    /\ inst.lines[i].steps \cap inst.lines[j].steps # {}

(***************************************************************************)
(* C13: on an instance of One-team lines the direct encoding               *)
(* (solver_combinatorial) and the symmetry-reduced encoding                *)
(* (solver_symmetry) admit the same assignments, those that satisfy every  *)
(* One-team line, also when lines share a step and their teams overlap or  *)
(* are disjoint.                                                           *)
(***************************************************************************)
C13_OneTeamEncodingsEquivalent ==
    (/\ pc = "built"
     /\ solver = "solver_symmetry"
     /\ \A i \in DOMAIN instance.lines : instance.lines[i].kw = "One-team")
        => /\ IntSolutions(cp) = IntSolutions(ModelCombinatorial(instance))
           /\ IntSolutions(cp) = {a \in Assignments(instance) : Satisfies(instance, a)}

\* Two One-team lines share a step, a team of one is disjoint from a team of the other
\* and another pair of their teams overlaps without being equal, and the model of
\* solver_symmetry admits an assignment.
C13_Witness ==
    /\ pc = "built"
    /\ solver = "solver_symmetry"
    /\ IntSolutions(cp) # {}
    /\ \E i \in DOMAIN instance.lines : \E j \in DOMAIN instance.lines :
          /\ SharedStep(instance, i, j)
          /\ \E t \in Range(instance.lines[i].teams) : \E u \in Range(instance.lines[j].teams) :
                t \cap u = {}
          /\ \E t \in Range(instance.lines[i].teams) : \E u \in Range(instance.lines[j].teams) :
                t \cap u # {} /\ t # u

(***************************************************************************)
(* C14: for every User-capacity line (u, c), every solution returned by    *)
(* solver_combinatorial, solver_symmetry or solver_doreen gives user u at  *)
(* most c steps.                                                           *)
(***************************************************************************)
C14_UserCapacity ==
    \A sol \in ReturnedSolutions :
        \A i \in LinesOfKind(instance, "User-capacity") :
            Cardinality(StepsOf(sol, instance.lines[i].user)) <= instance.lines[i].cap

\* The list of solutions a result holds: the blocks of mul_sol, or the one solution of a
\* result without blocks.
SolutionList ==
    IF d.mul_sol.blocks # <<>>
    THEN d.mul_sol.blocks
    ELSE IF d.sat = "sat" THEN <<d.sol>> ELSE <<>>

\* The solution text is that of an assignment satisfying every line of the instance.
Valid(sol) ==
    \E a \in Assignments(instance) :
        FormatInt(a, instance.steps) = sol /\ Satisfies(instance, a)

(***************************************************************************)
(* C15: Solver(file, max_solutions=L) with L > 1, of whichever solver,     *)
(* returns at most L solutions, each satisfying every constraint, and      *)
(* fewer than L only if the instance has fewer than L satisfying           *)
(* assignments; stated of the calls the backend does not end undecided.    *)
(***************************************************************************)
C15_MultiSolutionLimit ==
    (pc = "done" /\ max_solutions > 1 /\ status # "UNKNOWN")
        => /\ Len(SolutionList) <= max_solutions
           /\ \A n \in DOMAIN SolutionList : Valid(SolutionList[n])
           /\ Len(SolutionList) < max_solutions
                 => Cardinality({a \in Assignments(instance) : Satisfies(instance, a)})
                        < max_solutions

(***************************************************************************)
(* C16: the list of solutions multi-solution enumeration returns holds no  *)
(* two identical step->user assignments.                                   *)
(***************************************************************************)
C16_DistinctSolutions ==
    pc = "done"
        => \A i \in DOMAIN d.mul_sol.blocks : \A j \in DOMAIN d.mul_sol.blocks :
              i # j => d.mul_sol.blocks[i] # d.mul_sol.blocks[j]

(***************************************************************************)
(* C17: a solve whose backend status is UNKNOWN is reported as an outcome  *)
(* distinct from unsat: no Solver returns sat = 'unsat' unless the backend *)
(* proved the instance infeasible.                                         *)
(***************************************************************************)
C17_UnknownIsNotUnsat ==
    (pc = "done" /\ d.sat = "unsat") => status = "INFEASIBLE"

(***************************************************************************)
(* C18: no partial solution is returned: in every result sat = 'sat'       *)
(* implies that sol holds exactly stepsCount lines, one per step, and      *)
(* sat = 'unsat' implies that sol is empty and mul_sol holds no solution   *)
(* block.                                                                  *)
(***************************************************************************)
C18_NoPartialSolution ==
    pc = "done"
        => /\ d.sat \in {"sat", "unsat"}
           /\ d.sat = "sat"
                 => /\ Len(d.sol) = instance.steps
                    /\ \A s \in 1..instance.steps :
                          Cardinality({i \in DOMAIN d.sol : d.sol[i][1] = s}) = 1
           /\ d.sat = "unsat" => d.sol = <<>> /\ d.mul_sol = NoMulSol

\* An enumeration of solver_doreen that ends before the backend has reported every
\* solution, and returns the whole solutions found so far.
C18_Witness ==
    /\ pc = "done"
    /\ solver = "solver_doreen"
    /\ max_solutions > 1
    /\ enumerated # FullSolutions(cp)
    /\ d.sat = "sat"
    /\ Len(d.sol) = MaxSteps
    /\ Len(instance.lines) = MaxLines

(***************************************************************************)
(* C19: an exception raised during a solve attempt reaches the caller as   *)
(* an error and is never recorded or reported as an unsat outcome: not by  *)
(* the Solver functions, not by run_solver.py, not by the benchmark's run  *)
(* loop.                                                                   *)
(***************************************************************************)
C19_ExceptionIsNotUnsat ==
    pc = "raised"
        => /\ d.sat # "unsat"
           /\ report.out # "unsat"
           /\ report.is_sat # "False"

(***************************************************************************)
(* C20: an instance with a line of an unknown keyword or a malformed line  *)
(* is rejected by every solver's parser before any solve result is         *)
(* produced; no such line is silently ignored.                             *)
(***************************************************************************)
C20_MalformedRejected ==
    (\E i \in DOMAIN instance.lines : instance.lines[i] \in MalformedLines(instance.steps))
        => pc \in {"ready", "raised"}

C28_UniqueOnlyWhenUnique ==
    (pc = "done" /\ solver = "solver_doreen" /\ max_solutions <= 1 /\ d.sat = "sat")
        => d.mul_sol.text =
              IF Cardinality({a \in Assignments(instance) : Satisfies(instance, a)}) = 1
              THEN "Unique solution found"
              ELSE "Multiple solutions may exist"

OffTeam(l, sol) ==
    ~ \E t \in DOMAIN l.teams : \A s \in l.steps : UsersOf(sol, s) \subseteq l.teams[t]

(***************************************************************************)
(* C22: for an instance with a One-team line and a solution text in which  *)
(* the users of the steps of that line are not all members of one team,    *)
(* each of validator.py, validator2.py and validator3.py reports a         *)
(* One-team violation.                                                     *)
(***************************************************************************)
C22_OneTeamRejected ==
    (\E i \in LinesOfKind(instance, "One-team") : OffTeam(instance.lines[i], solution_file))
        => \A v \in {validation.validator, validation.validator2, validation.validator3} :
              v.ran => "One-team" \in v.violations

(***************************************************************************)
(* C26: every solution solver_combinatorial returns is reported valid by   *)
(* validator.py and by validator2.py on the same instance text, instances  *)
(* with several Authorisations lines of one user included.                 *)
(***************************************************************************)
C26_SolverSolutionsValidate ==
    (solver = "solver_combinatorial" /\ validation.validator.ran)
        => /\ validation.validator.violations = {}
           /\ validation.validator2.violations = {}

(***************************************************************************)
(* C27: the three validators agree: on every instance and complete         *)
(* solution, for each of the six constraint families, either all three     *)
(* report a violation of it or none does.                                  *)
(***************************************************************************)
C27_ValidatorsAgree ==
    (validation.validator.ran /\ validation.validator2.ran /\ validation.validator3.ran)
        => \A f \in Families :
              /\ f \in validation.validator.violations <=> f \in validation.validator2.violations
              /\ f \in validation.validator.violations <=> f \in validation.validator3.violations

\* The rows of the constraints tree show the entries of self.constraints, in order.
TreeShowsConstraints ==
    app.constraints_tree = update_constraints_tree(app.constraints)

(***************************************************************************)
(* C30: after any sequence of editor operations (add/remove step,          *)
(* add/remove user, add constraint of any family, remove constraint) the   *)
(* constraints shown in the tree are exactly the entries of                *)
(* self.constraints, and remove_constraint removes the selected constraint *)
(* from both, for every family, User-capacity included.                    *)
(***************************************************************************)
C30_TreeShowsConstraints ==
    /\ []TreeShowsConstraints
    /\ [][\A item \in 1..MaxLines :
             remove_constraint(item)
                => /\ Len(app'.constraints) = Len(app.constraints) - 1
                   /\ Len(app'.constraints_tree) = Len(app.constraints_tree) - 1]_vars

(***************************************************************************)
(* C29: exporting a problem from the editor and importing the exported     *)
(* file restores the same steps, users and constraint list, for problems   *)
(* with constraints of any of the six families, User-capacity included: an *)
(* import of the file that holds the export of the present problem leaves  *)
(* steps, users and constraints as they are.                               *)
(***************************************************************************)
C29_ExportImportRoundTrip ==
    [][(import_problem /\ files.exported = ProblemFile(app))
          => /\ app'.steps = app.steps
             /\ app'.users = app.users
             /\ app'.constraints = app.constraints]_vars

(***************************************************************************)
(* C23: concurrent solve attempts share no state: when run_solver is       *)
(* invoked again before an earlier attempt has been displayed, each        *)
(* attempt solves the instance that was current when it was started, and   *)
(* each completes and displays its result without error.  No attempt ends  *)
(* in an exception, and the text the Solver read for an attempt is the     *)
(* text run_solver wrote for it.                                           *)
(***************************************************************************)
C23_AttemptsShareNoState ==
    \A i \in DOMAIN attempts :
        /\ attempts[i].pc # "FileNotFoundError"
        /\ attempts[i].pc \in {"display_results", "displayed"}
              => attempts[i].solved = attempts[i].instance

====
